---- MODULE Spec2Model ----
(***************************************************************************)
(* Model of the inline-annotation engine of page2tei.py:                   *)
(*   parse_custom_ops            (the PAGE @custom mini-language parser)   *)
(*   build_inline_nodes_for_line (the overlay builder) and its builders.   *)
(* A Python str is a sequence of one-character strings; a dict is a        *)
(* sequence of <<key, value>> pairs in insertion order; an Element is a    *)
(* record with tag, attrib, text, children and tail.                       *)
(***************************************************************************)
EXTENDS Integers, Sequences, FiniteSets, TLC

(***************************************************************************)
(* String literals of the source, as character sequences.                  *)
(***************************************************************************)
S_kind == <<"k","i","n","d">>
S_offset == <<"o","f","f","s","e","t">>
S_length == <<"l","e","n","g","t","h">>
S_end == <<"e","n","d">>
S_abbrev == <<"a","b","b","r","e","v">>
S_sic == <<"s","i","c">>
S_regularised == <<"r","e","g","u","l","a","r","i","s","e","d">>
S_num == <<"n","u","m">>
S_person == <<"p","e","r","s","o","n">>
S_place == <<"p","l","a","c","e">>
S_ref == <<"r","e","f">>
S_unclear == <<"u","n","c","l","e","a","r">>
S_textStyle == <<"t","e","x","t","S","t","y","l","e">>
S_expansion == <<"e","x","p","a","n","s","i","o","n">>
S_correction == <<"c","o","r","r","e","c","t","i","o","n">>
S_original == <<"o","r","i","g","i","n","a","l">>
S_type == <<"t","y","p","e">>
S_value == <<"v","a","l","u","e">>
S_target == <<"t","a","r","g","e","t">>
S_reason == <<"r","e","a","s","o","n">>
S_wikiData == <<"w","i","k","i","D","a","t","a">>
S_country == <<"c","o","u","n","t","r","y">>
S_region == <<"r","e","g","i","o","n">>
S_settlement == <<"s","e","t","t","l","e","m","e","n","t">>
S_district == <<"d","i","s","t","r","i","c","t">>
S_bold == <<"b","o","l","d">>
S_italic == <<"i","t","a","l","i","c">>
S_underline == <<"u","n","d","e","r","l","i","n","e">>
S_superscript == <<"s","u","p","e","r","s","c","r","i","p","t">>
S_subscript == <<"s","u","b","s","c","r","i","p","t">>
S_true == <<"t","r","u","e">>
S_false == <<"f","a","l","s","e">>
S_yes == <<"y","e","s">>
S_custom == <<"c","u","s","t","o","m">>
S_data == <<"d","a","t","a","-">>
S_wikiBase == <<"h","t","t","p","s",":","/","/","w","w","w",".","w","i","k","i","d","a","t","a",".","o","r","g","/","w","i","k","i","/">>
S_choice == <<"c","h","o","i","c","e">>
S_abbr == <<"a","b","b","r">>
S_expan == <<"e","x","p","a","n">>
S_corr == <<"c","o","r","r">>
S_orig == <<"o","r","i","g">>
S_reg == <<"r","e","g">>
S_hi == <<"h","i">>
S_rend == <<"r","e","n","d">>
S_persName == <<"p","e","r","s","N","a","m","e">>
S_placeName == <<"p","l","a","c","e","N","a","m","e">>
S_seg == <<"s","e","g">>
S_tmp == <<"t","m","p">>

(***************************************************************************)
(* Character classes of the regular expressions (\w, \s) and of int().     *)
(***************************************************************************)
Digits == <<"0","1","2","3","4","5","6","7","8","9">>
LowerLetters == {"a","b","c","d","e","f","g","h","i","j","k","l","m",
                 "n","o","p","q","r","s","t","u","v","w","x","y","z"}
UpperLetters == <<"A","B","C","D","E","F","G","H","I","J","K","L","M",
                  "N","O","P","Q","R","S","T","U","V","W","X","Y","Z">>
LowerOfUpper == <<"a","b","c","d","e","f","g","h","i","j","k","l","m",
                  "n","o","p","q","r","s","t","u","v","w","x","y","z">>
IsUpper(c) == \E i \in 1..Len(UpperLetters) : UpperLetters[i] = c
LowerChar(c) ==
  IF IsUpper(c) THEN LowerOfUpper[CHOOSE i \in 1..Len(UpperLetters) : UpperLetters[i] = c] ELSE c
IsDigit(c) == \E i \in 1..10 : Digits[i] = c
DigitVal(c) == (CHOOSE i \in 1..10 : Digits[i] = c) - 1
IsWord(c) == c \in LowerLetters \/ IsUpper(c) \/ IsDigit(c) \/ c = "_"
IsSpace(c) == c \in {" ", "\t", "\n"}
Lower(s) == [i \in 1..Len(s) |-> LowerChar(s[i])]

\* str.strip(): drop leading and trailing whitespace
RECURSIVE LStrip(_)
LStrip(s) == IF s # <<>> /\ IsSpace(Head(s)) THEN LStrip(Tail(s)) ELSE s
RECURSIVE RStrip(_)
RStrip(s) == IF s # <<>> /\ IsSpace(s[Len(s)]) THEN RStrip(SubSeq(s, 1, Len(s) - 1)) ELSE s
Strip(s) == RStrip(LStrip(s))

\* parse_bool: str(val).strip().lower() in (1, true, yes, y)
parse_bool(val) == Lower(Strip(val)) \in {<<"1">>, S_true, S_yes, <<"y">>}

(***************************************************************************)
(* int(val): optional sign, then digits, single underscores allowed        *)
(* between digits, surrounding whitespace ignored; anything else raises.   *)
(***************************************************************************)
RECURSIVE DigitsOk(_, _)
DigitsOk(s, prevDigit) ==
  IF s = <<>> THEN prevDigit
  ELSE IF IsDigit(Head(s)) THEN DigitsOk(Tail(s), TRUE)
  ELSE IF Head(s) = "_" THEN prevDigit /\ Len(s) > 1 /\ IsDigit(s[2]) /\ DigitsOk(Tail(s), FALSE)
  ELSE FALSE
RECURSIVE DigitsValue(_, _)
DigitsValue(s, acc) ==
  IF s = <<>> THEN acc
  ELSE IF Head(s) = "_" THEN DigitsValue(Tail(s), acc)
  ELSE DigitsValue(Tail(s), 10 * acc + DigitVal(Head(s)))
IntOk(val) ==
  LET s == Strip(val)
      u == IF s # <<>> /\ Head(s) \in {"-", "+"} THEN Tail(s) ELSE s
  IN  DigitsOk(u, FALSE)
IntValue(val) ==
  LET s == Strip(val)
      neg == s # <<>> /\ Head(s) = "-"
      u == IF s # <<>> /\ Head(s) \in {"-", "+"} THEN Tail(s) ELSE s
  IN  IF neg THEN 0 - DigitsValue(u, 0) ELSE DigitsValue(u, 0)
parse_intMut(val, default) == IF IntOk(val) THEN IntValue(val) ELSE 0 - 1
\* parse_int: int(val), or the default when int raises
parse_int(val, default) == IF IntOk(val) THEN IntValue(val) ELSE default

(***************************************************************************)
(* Python values held in a dict: an int or a str.                          *)
(***************************************************************************)
IntV(n) == [ty |-> "int", i |-> n, s |-> <<>>]
StrV(s) == [ty |-> "str", i |-> 0, s |-> s]
IsInt(v) == v.ty = "int"

\* dict: insertion-ordered sequence of <<key, value>>
Has(d, k) == \E i \in 1..Len(d) : d[i][1] = k
Get(d, k) == d[CHOOSE i \in 1..Len(d) : d[i][1] = k][2]
GetOr(d, k, default) == IF Has(d, k) THEN Get(d, k) ELSE default
Put(d, k, v) ==
  IF Has(d, k) THEN [i \in 1..Len(d) |-> IF d[i][1] = k THEN <<k, v>> ELSE d[i]]
  ELSE Append(d, <<k, v>>)

(***************************************************************************)
(* re.finditer over custom_str with the op pattern: a word, optional       *)
(* whitespace, an opening brace, anything but a closing brace, a closing   *)
(* brace.  Group 1 is the word, group 2 the text between the braces.       *)
(***************************************************************************)
RECURSIVE WordEnd(_, _)
WordEnd(s, p) == IF p <= Len(s) /\ IsWord(s[p]) THEN WordEnd(s, p + 1) ELSE p
RECURSIVE SkipSpace(_, _)
SkipSpace(s, p) == IF p <= Len(s) /\ IsSpace(s[p]) THEN SkipSpace(s, p + 1) ELSE p
RECURSIVE FindChar(_, _, _)
FindChar(s, p, c) == IF p <= Len(s) /\ s[p] # c THEN FindChar(s, p + 1, c) ELSE p

\* one attempt of the op pattern at position p
MatchOp(s, p) ==
  LET q == WordEnd(s, p)
      r == SkipSpace(s, q)
      t == FindChar(s, r + 1, "}")
  IN  IF q > p /\ r <= Len(s) /\ s[r] = "{" /\ t <= Len(s)
      THEN [ok |-> TRUE, g1 |-> SubSeq(s, p, q - 1), g2 |-> SubSeq(s, r + 1, t - 1), next |-> t + 1]
      ELSE [ok |-> FALSE, g1 |-> <<>>, g2 |-> <<>>, next |-> p + 1]
RECURSIVE FindOps(_, _)
FindOps(s, p) ==
  IF p > Len(s) THEN <<>>
  ELSE LET m == MatchOp(s, p)
       IN  IF m.ok THEN <<m>> \o FindOps(s, m.next) ELSE FindOps(s, p + 1)

(***************************************************************************)
(* re.finditer over body with the key:value pattern: a word, optional      *)
(* whitespace, a colon, optional whitespace, one or more characters other  *)
(* than a semicolon, a semicolon.  Group 2 is stripped by the caller, so    *)
(* how the whitespace after the colon is split does not matter.            *)
(***************************************************************************)
MatchPart(s, p) ==
  LET q == WordEnd(s, p)
      r == SkipSpace(s, q)
      t == FindChar(s, r + 1, ";")
  IN  IF q > p /\ r <= Len(s) /\ s[r] = ":" /\ t <= Len(s) /\ t > r + 1
      THEN [ok |-> TRUE, g1 |-> SubSeq(s, p, q - 1), g2 |-> SubSeq(s, r + 1, t - 1), next |-> t + 1]
      ELSE [ok |-> FALSE, g1 |-> <<>>, g2 |-> <<>>, next |-> p + 1]
RECURSIVE FindParts(_, _)
FindParts(s, p) ==
  IF p > Len(s) THEN <<>>
  ELSE LET m == MatchPart(s, p)
       IN  IF m.ok THEN <<m>> \o FindParts(s, m.next) ELSE FindParts(s, p + 1)

\* kv[part.group(1)] = part.group(2).strip(), left to right
RECURSIVE ParseBody(_, _)
ParseBody(parts, kv) ==
  IF parts = <<>> THEN kv
  ELSE ParseBody(Tail(parts), Put(kv, Head(parts).g1, StrV(Strip(Head(parts).g2))))

\* for k, v in kv.items(): skip offset and length, else op[k] = v
RECURSIVE AddOtherAttributes(_, _)
AddOtherAttributes(op, kv) ==
  IF kv = <<>> THEN op
  ELSE LET k == Head(kv)[1]
           v == Head(kv)[2]
       IN  IF k \in {S_offset, S_length} THEN AddOtherAttributes(op, Tail(kv))
           ELSE AddOtherAttributes(Put(op, k, v), Tail(kv))

StyleKeys == <<S_bold, S_italic, S_underline, S_superscript, S_subscript>>

\* for kind textStyle: coerce the five style keys to true/false
RECURSIVE NormalizeStyle(_, _)
NormalizeStyle(op, i) ==
  IF i > Len(StyleKeys) THEN op
  ELSE LET k == StyleKeys[i]
       IN  IF Has(op, k)
           THEN NormalizeStyle(Put(op, k, StrV(IF parse_bool(Get(op, k).s) THEN S_true ELSE S_false)), i + 1)
           ELSE NormalizeStyle(op, i + 1)

\* body of the loop over the matches: one op per match
MakeOp(m) ==
  LET kind == m.g1
      kv == ParseBody(FindParts(m.g2, 1), <<>>)
      off == parse_int(GetOr(kv, S_offset, StrV(<<"0">>)).s, 0)
      length == parse_int(GetOr(kv, S_length, StrV(<<"0">>)).s, 0)
      end == off + length
      op0 == << <<S_kind, StrV(kind)>>, <<S_offset, IntV(off)>>,
                <<S_length, IntV(length)>>, <<S_end, IntV(end)>> >>
      op1 == AddOtherAttributes(op0, kv)
  IN  IF kind = S_textStyle THEN NormalizeStyle(op1, 1) ELSE op1

parse_custom_ops(custom_str) ==
  LET ms == FindOps(custom_str, 1)
  IN  [i \in 1..Len(ms) |-> MakeOp(ms[i])]


(***************************************************************************)
(* xml.etree Element: tag, attrib, text, children, tail.  None is the      *)
(* Python None of text and tail.  A node of the result list is either a    *)
(* str, [str |-> s], or an Element.                                        *)
(***************************************************************************)
None == << "<None>" >>
Element(tag) == [tag |-> tag, attrib |-> <<>>, text |-> None, children |-> <<>>, tail |-> None]
SetAttr(el, k, v) == [el EXCEPT !.attrib = Put(@, k, v)]
OrEmpty(s) == IF s = None THEN <<>> ELSE s
StrNode(s) == [str |-> s]
IsStrNode(n) == "str" \in DOMAIN n

append_text(parent, s) ==
  IF s = <<>> THEN parent
  ELSE IF parent.text = None /\ Len(parent.children) = 0 THEN [parent EXCEPT !.text = s]
  ELSE IF Len(parent.children) > 0
       THEN [parent EXCEPT !.children[Len(parent.children)].tail = OrEmpty(@) \o s]
       ELSE [parent EXCEPT !.text = OrEmpty(@) \o s]

(***************************************************************************)
(* Python helpers: slicing, min/max clamping, sorted(), str.join.          *)
(***************************************************************************)
Min(a, b) == IF a < b THEN a ELSE b
Max(a, b) == IF a > b THEN a ELSE b
\* text[a:b]: an index past the end is the end, a negative index counts from the end
SliceIndex(s, i) == IF i < 0 THEN Max(i + Len(s), 0) ELSE Min(i, Len(s))
Slice(s, a, b) == SubSeq(s, SliceIndex(s, a) + 1, SliceIndex(s, b))

RECURSIVE SortedInts(_)
SortedInts(S) ==
  IF S = {} THEN <<>>
  ELSE LET m == CHOOSE x \in S : \A y \in S : x <= y
       IN  <<m>> \o SortedInts(S \ {m})

\* code-point order of the characters that occur in rend labels
CharOrder == <<" ", "a","b","c","d","e","f","g","h","i","j","k","l","m",
               "n","o","p","q","r","s","t","u","v","w","x","y","z">>
Ord(c) == CHOOSE i \in 1..Len(CharOrder) : CharOrder[i] = c
RECURSIVE StrLess(_, _)
StrLess(a, b) ==
  IF b = <<>> THEN FALSE
  ELSE IF a = <<>> THEN TRUE
  ELSE IF Head(a) = Head(b) THEN StrLess(Tail(a), Tail(b))
  ELSE Ord(Head(a)) < Ord(Head(b))
RECURSIVE SortedStrs(_)
SortedStrs(S) ==
  IF S = {} THEN <<>>
  ELSE LET m == CHOOSE x \in S : \A y \in S \ {x} : StrLess(x, y)
       IN  <<m>> \o SortedStrs(S \ {m})
RECURSIVE Join(_, _)
Join(sep, parts) ==
  IF parts = <<>> THEN <<>>
  ELSE IF Len(parts) = 1 THEN parts[1]
  ELSE parts[1] \o sep \o Join(sep, Tail(parts))

(***************************************************************************)
(* slice_text_nodes: ranges is a sequence of <<start, end, label>>; the    *)
(* result a sequence of [s, e, segment, labels].                           *)
(***************************************************************************)
CutPoints(text, ranges) ==
  {0, Len(text)}
    \cup {Max(0, Min(Len(text), ranges[j][1])) : j \in 1..Len(ranges)}
    \cup {Max(0, Min(Len(text), ranges[j][2])) : j \in 1..Len(ranges)}
SegmentLabels(ranges, s, e) ==
  {ranges[j][3] : j \in {k \in 1..Len(ranges) :
      ranges[k][1] <= s /\ e <= ranges[k][2] /\ ranges[k][1] < ranges[k][2]}}
slice_text_nodesMut(text, ranges) ==
  LET cuts == SortedInts(CutPoints(text, ranges))
      segs == [i \in 1..(Len(cuts) - 1) |->
                 [s |-> cuts[i], e |-> cuts[i + 1], segment |-> Slice(text, cuts[i], cuts[i + 1]),
                  labels |-> SegmentLabels(ranges, cuts[i], cuts[i + 1])]]
  IN  SelectSeq(segs, LAMBDA g : g.labels # {})
slice_text_nodes(text, ranges) ==
  LET cuts == SortedInts(CutPoints(text, ranges))
  IN  [i \in 1..(Len(cuts) - 1) |->
         [s |-> cuts[i], e |-> cuts[i + 1], segment |-> Slice(text, cuts[i], cuts[i + 1]),
          labels |-> SegmentLabels(ranges, cuts[i], cuts[i + 1])]]

(***************************************************************************)
(* build_styled_nodes                                                      *)
(***************************************************************************)
\* the rend list of one style op, in the fixed order of the five tests
RendOf(op) ==
  SelectSeq(StyleKeys, LAMBDA k : GetOr(op, k, StrV(S_false)).s = S_true)
RECURSIVE StyleRanges(_)
StyleRanges(style_ops) ==
  IF style_ops = <<>> THEN <<>>
  ELSE LET op == Head(style_ops)
           rend == RendOf(op)
       IN  IF rend = <<>> THEN StyleRanges(Tail(style_ops))
           ELSE << <<Get(op, S_offset).i, Get(op, S_end).i, Join(<<" ">>, rend)>> >>
                  \o StyleRanges(Tail(style_ops))
RECURSIVE NestedHi(_, _)
NestedHi(seg_text, labs) ==
  IF Len(labs) <= 1
  THEN [SetAttr(Element(S_hi), S_rend, Join(<<" ">>, labs)) EXCEPT !.text = seg_text]
  ELSE [SetAttr(Element(S_hi), S_rend, Head(labs)) EXCEPT
          !.children = <<NestedHi(seg_text, Tail(labs))>>]
HiElementMut(seg_text, labels) == NestedHi(seg_text, SortedStrs(labels))
HiElement(seg_text, labels) ==
  [SetAttr(Element(S_hi), S_rend, Join(<<" ">>, SortedStrs(labels))) EXCEPT !.text = seg_text]
RECURSIVE AppendSegments(_, _)
AppendSegments(parent, segs) ==
  IF segs = <<>> THEN parent
  ELSE LET g == Head(segs)
       IN  IF g.labels = {} THEN AppendSegments(append_text(parent, g.segment), Tail(segs))
           ELSE AppendSegments([parent EXCEPT !.children = Append(@, HiElement(g.segment, g.labels))],
                               Tail(segs))
build_styled_nodesMut(parent, text, style_ops) ==
  LET ranges == StyleRanges(style_ops)
  IN  IF ranges = <<>> THEN parent
      ELSE AppendSegments(parent, slice_text_nodes(text, ranges))
build_styled_nodes(parent, text, style_ops) ==
  LET ranges == StyleRanges(style_ops)
  IN  IF ranges = <<>> THEN append_text(parent, text)
      ELSE AppendSegments(parent, slice_text_nodes(text, ranges))


(***************************************************************************)
(* The per-kind builders.  Each one selects the style ops inside the       *)
(* witness and copies them with offset and end made relative to it.        *)
(***************************************************************************)
\* the copy keeps the line coordinates
RebasedMut(op, global_offset) == op
Rebased(op, global_offset) ==
  Put(Put(op, S_offset, IntV(Get(op, S_offset).i - global_offset)),
      S_end, IntV(Get(op, S_end).i - global_offset))
AdjStyles(witness_text, inner_style_ops, global_offset) ==
  LET inside == SelectSeq(inner_style_ops,
                  LAMBDA op : Get(op, S_offset).i >= global_offset
                              /\ Get(op, S_end).i <= global_offset + Len(witness_text))
  IN  [j \in 1..Len(inside) |-> Rebased(inside[j], global_offset)]

\* el.set(name, op[key]) when key is in op
SetIfPresent(el, name, op, key) ==
  IF Has(op, key) THEN SetAttr(el, name, Get(op, key).s) ELSE el

build_choice_with_stylesMut(kind, witness_text, alt_text, inner_style_ops, global_offset) ==
  LET a_tag == CASE kind = S_abbrev -> S_abbr [] kind = S_sic -> S_sic [] OTHER -> S_orig
      b_tag == CASE kind = S_abbrev -> S_expan [] kind = S_sic -> S_corr [] OTHER -> S_reg
      a == build_styled_nodes(Element(a_tag), witness_text,
                              AdjStyles(witness_text, inner_style_ops, global_offset))
      b == [Element(b_tag) EXCEPT !.text = alt_text]
  IN  [Element(S_choice) EXCEPT !.children = <<a, b>>]
build_choice_with_styles(kind, witness_text, alt_text, inner_style_ops, global_offset) ==
  LET a_tag == CASE kind = S_abbrev -> S_abbr [] kind = S_sic -> S_sic [] OTHER -> S_orig
      b_tag == CASE kind = S_abbrev -> S_expan [] kind = S_sic -> S_corr [] OTHER -> S_reg
      first_text == IF kind = S_regularised THEN alt_text ELSE witness_text
      second_text == IF kind = S_regularised THEN witness_text ELSE alt_text
      adj_styles == AdjStyles(witness_text, inner_style_ops, global_offset)
      a == IF kind = S_regularised
           THEN [Element(a_tag) EXCEPT !.text = first_text]
           ELSE build_styled_nodes(Element(a_tag), first_text, adj_styles)
      b == IF kind = S_regularised
           THEN build_styled_nodes(Element(b_tag), second_text, adj_styles)
           ELSE [Element(b_tag) EXCEPT !.text = second_text]
  IN  [Element(S_choice) EXCEPT !.children = <<a, b>>]

build_num_with_styles(witness_text, num_op, inner_style_ops, global_offset) ==
  LET num == SetIfPresent(SetIfPresent(Element(S_num), S_type, num_op, S_type),
                          S_value, num_op, S_value)
  IN  build_styled_nodes(num, witness_text, AdjStyles(witness_text, inner_style_ops, global_offset))

build_persName(witness_text, person_op, inner_style_ops, global_offset) ==
  LET p1 == SetIfPresent(Element(S_persName), S_type, person_op, S_type)
      persName == IF Has(person_op, S_wikiData)
                  THEN SetAttr(p1, S_ref, S_wikiBase \o Get(person_op, S_wikiData).s)
                  ELSE p1
  IN  build_styled_nodes(persName, witness_text, AdjStyles(witness_text, inner_style_ops, global_offset))

nested_attrs == <<S_country, S_region, S_settlement, S_district>>
\* the styled witness is added after the field children as well
build_placeNameMut(witness_text, place_op, inner_style_ops, global_offset) ==
  LET present == SelectSeq(nested_attrs, LAMBDA attr : Has(place_op, attr))
      placeName == [Element(S_placeName) EXCEPT !.children =
                      [j \in 1..Len(present) |->
                         [Element(present[j]) EXCEPT !.text = Get(place_op, present[j]).s]]]
  IN  build_styled_nodes(placeName, witness_text,
                         AdjStyles(witness_text, inner_style_ops, global_offset))
build_placeName(witness_text, place_op, inner_style_ops, global_offset) ==
  LET present == SelectSeq(nested_attrs, LAMBDA attr : Has(place_op, attr))
      has_nested == present # <<>>
      placeName == [Element(S_placeName) EXCEPT !.children =
                      [j \in 1..Len(present) |->
                         [Element(present[j]) EXCEPT !.text = Get(place_op, present[j]).s]]]
  IN  IF has_nested THEN placeName
      ELSE build_styled_nodes(placeName, witness_text,
                              AdjStyles(witness_text, inner_style_ops, global_offset))

build_ref(witness_text, ref_op, inner_style_ops, global_offset) ==
  LET ref == SetIfPresent(SetIfPresent(Element(S_ref), S_type, ref_op, S_type),
                          S_target, ref_op, S_target)
  IN  build_styled_nodes(ref, witness_text, AdjStyles(witness_text, inner_style_ops, global_offset))

build_unclear(witness_text, unclear_op, inner_style_ops, global_offset) ==
  LET unclear == SetIfPresent(Element(S_unclear), S_reason, unclear_op, S_reason)
  IN  build_styled_nodes(unclear, witness_text, AdjStyles(witness_text, inner_style_ops, global_offset))

\* the op keys build_fallback_seg does not echo
FallbackSkipped == {S_kind, S_offset, S_length, S_end}
RECURSIVE EchoAttrs(_, _)
EchoAttrs(seg, items) ==
  IF items = <<>> THEN seg
  ELSE LET k == Head(items)[1]
           v == Head(items)[2]
       IN  IF k \in FallbackSkipped THEN EchoAttrs(seg, Tail(items))
           ELSE EchoAttrs(SetAttr(seg, S_data \o k, v.s), Tail(items))
build_fallback_seg(witness_text, op, inner_style_ops, global_offset) ==
  LET seg0 == SetAttr(Element(S_seg), S_type, GetOr(op, S_kind, StrV(S_custom)).s)
      seg == EchoAttrs(seg0, op)
  IN  build_styled_nodes(seg, witness_text, AdjStyles(witness_text, inner_style_ops, global_offset))

\* the if/elif chain that picks the builder of a wrapper
ChoiceKinds == {S_abbrev, S_sic, S_regularised}
BuildElement(w, witness, inner_styles, start) ==
  LET kind == Get(w, S_kind).s
  IN  IF kind \in ChoiceKinds
      THEN LET altKey == CASE kind = S_abbrev -> S_expansion
                           [] kind = S_sic -> S_correction
                           [] OTHER -> S_original
               alt == GetOr(w, altKey, StrV(<<>>)).s
           IN  build_choice_with_styles(kind, witness, alt, inner_styles, start)
      ELSE IF kind = S_num THEN build_num_with_styles(witness, w, inner_styles, start)
      ELSE IF kind = S_person THEN build_persName(witness, w, inner_styles, start)
      ELSE IF kind = S_place THEN build_placeName(witness, w, inner_styles, start)
      ELSE IF kind = S_ref THEN build_ref(witness, w, inner_styles, start)
      ELSE IF kind = S_unclear THEN build_unclear(witness, w, inner_styles, start)
      ELSE build_fallback_seg(witness, w, inner_styles, start)

\* nodes of a filled tmp element: its text, then each child followed by its tail
RECURSIVE ChildNodes(_)
ChildNodes(children) ==
  IF children = <<>> THEN <<>>
  ELSE LET ch == Head(children)
       IN  <<[ch EXCEPT !.tail = None]>>
             \o (IF OrEmpty(ch.tail) # <<>> THEN <<StrNode(ch.tail)>> ELSE <<>>)
             \o ChildNodes(Tail(children))
TmpNodesMut(tmp) == <<StrNode(OrEmpty(tmp.text))>> \o ChildNodes(tmp.children)
TmpNodes(tmp) ==
  (IF OrEmpty(tmp.text) # <<>> THEN <<StrNode(tmp.text)>> ELSE <<>>) \o ChildNodes(tmp.children)


(***************************************************************************)
(* build_inline_nodes_for_line: the partition of the ops and the sort.     *)
(***************************************************************************)
KindOf(o) == Get(o, S_kind).s
OffsetOf(o) == Get(o, S_offset).i
LengthOf(o) == Get(o, S_length).i
EndOf(o) == Get(o, S_end).i
OfKinds(os, kinds) == SelectSeq(os, LAMBDA o : KindOf(o) \in kinds /\ LengthOf(o) > 0)
known_kinds == {S_abbrev, S_sic, S_regularised, S_num, S_person, S_place, S_ref,
                S_unclear, S_textStyle}
StyleOps(os) == OfKinds(os, {S_textStyle})
OtherOps(os) == SelectSeq(os, LAMBDA o : KindOf(o) \notin known_kinds /\ LengthOf(o) > 0)
WrapperList(os) ==
  OfKinds(os, ChoiceKinds) \o OfKinds(os, {S_num}) \o OfKinds(os, {S_person})
    \o OfKinds(os, {S_place}) \o OfKinds(os, {S_ref}) \o OfKinds(os, {S_unclear})
    \o OtherOps(os)

\* key=lambda x: (x[offset], -x[end]); tuples compare lexicographically
KeyLess(a, b) ==
  \/ OffsetOf(a) < OffsetOf(b)
  \/ OffsetOf(a) = OffsetOf(b) /\ (0 - EndOf(a)) < (0 - EndOf(b))
\* sorted() is stable: an element goes after every element not greater than it
RECURSIVE InsertSorted(_, _)
InsertSorted(sorted, x) ==
  IF sorted = <<>> THEN <<x>>
  ELSE IF KeyLess(x, Head(sorted)) THEN <<x>> \o sorted
  ELSE <<Head(sorted)>> \o InsertSorted(Tail(sorted), x)
RECURSIVE SortWrappers(_, _)
SortWrappers(done, rest) ==
  IF rest = <<>> THEN done
  ELSE SortWrappers(InsertSorted(done, Head(rest)), Tail(rest))

\* unary minus on a str end raises TypeError
SortRaises(ws) == \E j \in 1..Len(ws) : ~IsInt(Get(ws[j], S_end))
\* [s for s in style_ops if lo <= s[offset] and s[end] <= hi] raises TypeError
\* when the second comparison is reached with a str end
SelectRaises(styles, lo) ==
  \E j \in 1..Len(styles) : lo <= OffsetOf(styles[j]) /\ ~IsInt(Get(styles[j], S_end))
\* every style that overlaps the range is selected
SelectStylesMut(styles, lo, hi) ==
  SelectSeq(styles, LAMBDA st : OffsetOf(st) < hi /\ lo < EndOf(st))
SelectStyles(styles, lo, hi) ==
  SelectSeq(styles, LAMBDA st : lo <= OffsetOf(st) /\ EndOf(st) <= hi)

\* the nodes of a stretch of plain text with the styles selected for it
GapNodes(gap, gap_styles) == TmpNodes(build_styled_nodes(Element(S_tmp), gap, gap_styles))

(***************************************************************************)
(* The state: one line being converted.                                    *)
(***************************************************************************)
VARIABLES custom_str, text, ops, pc, wrappers, style_ops, idx, cursor, nodes
vars == <<custom_str, text, ops, pc, wrappers, style_ops, idx, cursor, nodes>>

\* ops = parse_custom_ops(cust)
Parse ==
  /\ pc = "parse"
  /\ ops' = parse_custom_ops(custom_str)
  /\ pc' = "build"
  /\ UNCHANGED <<custom_str, text, wrappers, style_ops, idx, cursor, nodes>>

\* entry of build_inline_nodes_for_line up to the loop
BuildStart ==
  /\ pc = "build"
  /\ ~SortRaises(WrapperList(ops))
  /\ wrappers' = SortWrappers(<<>>, WrapperList(ops))
  /\ style_ops' = StyleOps(ops)
  /\ nodes' = <<>>
  /\ cursor' = 0
  /\ idx' = 1
  /\ pc' = "loop"
  /\ UNCHANGED <<custom_str, text, ops>>

BuildSortRaises ==
  /\ pc = "build"
  /\ SortRaises(WrapperList(ops))
  /\ pc' = "error"
  /\ UNCHANGED <<custom_str, text, ops, wrappers, style_ops, idx, cursor, nodes>>

\* the test of the loop body: if start < cursor: continue
\* the loop without its overlap test
OverlappedNever(start, cur) == FALSE
OverlappedMut(start, cur) == start <= cur
Overlapped(start, cur) == start < cur

WrapperSkip ==
  /\ pc = "loop"
  /\ idx <= Len(wrappers)
  /\ Overlapped(OffsetOf(wrappers[idx]), cursor)
  /\ idx' = idx + 1
  /\ UNCHANGED <<custom_str, text, ops, pc, wrappers, style_ops, cursor, nodes>>

PreRaises(start) == Slice(text, cursor, start) # <<>> /\ SelectRaises(style_ops, cursor)
\* loop body for a wrapper that is kept
WrapperEmit ==
  /\ pc = "loop"
  /\ idx <= Len(wrappers)
  /\ LET w == wrappers[idx]
         start == OffsetOf(w)
         end == EndOf(w)
         pre == Slice(text, cursor, start)
         witness == Slice(text, start, end)
     IN  /\ ~Overlapped(start, cursor)
         /\ ~PreRaises(start)
         /\ ~SelectRaises(style_ops, start)
         /\ nodes' = nodes
              \o (IF pre # <<>> THEN GapNodes(pre, SelectStyles(style_ops, cursor, start)) ELSE <<>>)
              \o <<BuildElement(w, witness, SelectStyles(style_ops, start, end), start)>>
         /\ cursor' = end
  /\ idx' = idx + 1
  /\ UNCHANGED <<custom_str, text, ops, pc, wrappers, style_ops>>

WrapperRaises ==
  /\ pc = "loop"
  /\ idx <= Len(wrappers)
  /\ ~Overlapped(OffsetOf(wrappers[idx]), cursor)
  /\ PreRaises(OffsetOf(wrappers[idx])) \/ SelectRaises(style_ops, OffsetOf(wrappers[idx]))
  /\ pc' = "error"
  /\ UNCHANGED <<custom_str, text, ops, wrappers, style_ops, idx, cursor, nodes>>

\* after the loop: the tail, and return nodes
BuildTail ==
  /\ pc = "loop"
  /\ idx > Len(wrappers)
  /\ ~(cursor < Len(text) /\ SelectRaises(style_ops, cursor))
  /\ nodes' = nodes
       \o (IF cursor < Len(text)
           THEN GapNodes(Slice(text, cursor, Len(text)), SelectStyles(style_ops, cursor, Len(text)))
           ELSE <<>>)
  /\ pc' = "done"
  /\ UNCHANGED <<custom_str, text, ops, wrappers, style_ops, idx, cursor>>

TailRaises ==
  /\ pc = "loop"
  /\ idx > Len(wrappers)
  /\ cursor < Len(text)
  /\ SelectRaises(style_ops, cursor)
  /\ pc' = "error"
  /\ UNCHANGED <<custom_str, text, ops, wrappers, style_ops, idx, cursor, nodes>>

(***************************************************************************)
(* build_inline_nodes_for_line as a function of the line and its spans:    *)
(* the node list it returns, or that it raised.                            *)
(***************************************************************************)
Raised == [raised |-> TRUE, nodes |-> <<>>]
Returned(ns) == [raised |-> FALSE, nodes |-> ns]
RECURSIVE BuildLoop(_, _, _, _, _, _)
BuildLoop(line, ws, styles, i, cur, acc) ==
  IF i > Len(ws)
  THEN IF cur < Len(line)
       THEN IF SelectRaises(styles, cur) THEN Raised
            ELSE Returned(acc \o GapNodes(Slice(line, cur, Len(line)),
                                          SelectStyles(styles, cur, Len(line))))
       ELSE Returned(acc)
  ELSE LET w == ws[i]
           start == OffsetOf(w)
           end == EndOf(w)
           pre == Slice(line, cur, start)
           witness == Slice(line, start, end)
       IN  IF Overlapped(start, cur) THEN BuildLoop(line, ws, styles, i + 1, cur, acc)
           ELSE IF (pre # <<>> /\ SelectRaises(styles, cur)) \/ SelectRaises(styles, start)
           THEN Raised
           ELSE BuildLoop(line, ws, styles, i + 1, end,
                  acc \o (IF pre # <<>> THEN GapNodes(pre, SelectStyles(styles, cur, start))
                          ELSE <<>>)
                      \o <<BuildElement(w, witness, SelectStyles(styles, start, end), start)>>)
build_inline_nodes_for_line(line, os) ==
  IF SortRaises(WrapperList(os)) THEN Raised
  ELSE BuildLoop(line, SortWrappers(<<>>, WrapperList(os)), StyleOps(os), 1, 0, <<>>)

Next ==
  \/ Parse
  \/ BuildStart
  \/ BuildSortRaises
  \/ WrapperSkip
  \/ WrapperEmit
  \/ WrapperRaises
  \/ BuildTail
  \/ TailRaises


(***************************************************************************)
(* Inputs.  A line has a text and a custom attribute; the custom attribute *)
(* is written as ops of the mini-language, kind{key:value;...}.            *)
(***************************************************************************)
MaxLen == 4
MaxOps == 2

RECURSIVE Concat(_)
Concat(parts) == IF parts = <<>> THEN <<>> ELSE Head(parts) \o Concat(Tail(parts))
KV(k, v) == k \o <<":">> \o v \o <<";">>
Op(kind, parts) == kind \o <<"{">> \o Concat(parts) \o <<"}">>
Geo(off, len) == <<KV(S_offset, off), KV(S_length, len)>>
S_foo == <<"f","o","o">>
S_bar == <<"b","a","r">>
S_baz == <<"b","a","z">>
S_qux == <<"q","u","x">>

\* the two overlapping wrappers A and B of the overlap example
OverlapA == Op(S_num, Geo(<<"0">>, <<"5">>) \o <<KV(S_type, <<"t">>), KV(S_value, <<"7">>)>>)
OverlapB == Op(S_person, Geo(<<"2">>, <<"3">>) \o <<KV(S_wikiData, <<"Q","1">>)>>)
\* the ops of the examples of malformed numbers, of an unknown kind, and of
\* body keys named end and kind
MalformedNum == Op(S_num, Geo(<<"x">>, <<"3">>))
UnknownKind == Op(S_foo, <<KV(S_bar, S_baz)>> \o Geo(<<"1">>, <<"2">>))
EndKeyOp == Op(S_foo, Geo(<<"0">>, <<"2">>) \o <<KV(S_end, <<"9">>)>>)
KindKeyOp ==
  Op(S_foo, <<KV(S_kind, S_qux), KV(S_bar, <<"b">>)>> \o Geo(<<"2">>, <<"2">>) \o <<KV(S_bar, <<"c">>)>>)
BoldOp == Op(S_textStyle, Geo(<<"0">>, <<"3">>) \o <<KV(S_bold, S_true)>>)
ItalicOp == Op(S_textStyle, Geo(<<"0">>, <<"3">>) \o <<KV(S_italic, S_true)>>)

WrapperPool ==
  { Op(S_abbrev, Geo(<<"0">>, <<"2">>) \o <<KV(S_expansion, <<"x","y">>)>>),
    Op(S_sic, Geo(<<"3">>, <<"1">>)),
    Op(S_regularised, Geo(<<"1">>, <<"2">>) \o <<KV(S_original, <<"z">>)>>),
    OverlapA,
    MalformedNum,
    Op(S_num, Geo(<<"-","1">>, <<"2">>)),
    OverlapB,
    Op(S_place, Geo(<<"0">>, <<"3">>) \o <<KV(S_region, <<"r">>), KV(S_country, <<"q">>)>>),
    Op(S_place, Geo(<<"2">>, <<"1">>)),
    Op(S_ref, Geo(<<"1">>, <<"1">>) \o <<KV(S_target, <<"u">>)>>),
    Op(S_unclear, Geo(<<"0">>, <<"2">>) \o <<KV(S_reason, <<"r">>)>>),
    UnknownKind,
    EndKeyOp,
    KindKeyOp,
    <<"r","e","a","d","i","n","g","O","r","d","e","r"," ","{","i","n","d","e","x",":","3",";","}">> }

StylePool ==
  { BoldOp,
    ItalicOp,
    Op(S_textStyle, Geo(<<"1">>, <<"1">>) \o <<KV(S_bold, S_true), KV(S_italic, S_true)>>),
    Op(S_textStyle, Geo(<<"1">>, <<"2">>) \o <<KV(S_underline, <<"1">>), KV(S_bold, S_true)>>),
    Op(S_textStyle, Geo(<<"3">>, <<"1">>) \o <<KV(S_superscript, <<"Y","e","s">>)>>),
    Op(S_textStyle, Geo(<<"1">>, <<"9">>) \o <<KV(S_subscript, <<"y">>)>>),
    Op(S_textStyle, Geo(<<"0">>, <<"2">>) \o <<KV(S_bold, S_false)>>),
    Op(S_textStyle, Geo(<<"2">>, <<"1">>) \o <<KV(S_end, <<"3">>), KV(S_bold, S_true)>>) }

OpPool == WrapperPool \cup StylePool
Customs == UNION {{Join(<<" ">>, picks) : picks \in [1..n -> OpPool]} : n \in 0..MaxOps}
LineChars == <<"a","b","c","d","e","f","g","h">>
Texts == {SubSeq(LineChars, 1, n) : n \in 0..MaxLen}

Init ==
  /\ custom_str \in Customs
  /\ text \in Texts
  /\ ops = <<>>
  /\ pc = "parse"
  /\ wrappers = <<>>
  /\ style_ops = <<>>
  /\ idx = 1
  /\ cursor = 0
  /\ nodes = <<>>

Spec == Init /\ [][Next]_vars


(***************************************************************************)
(* Reading the result.                                                     *)
(***************************************************************************)
\* Element.itertext(): the text of an element and of everything below it
RECURSIVE IterText(_)
RECURSIVE IterChildren(_)
IterText(el) == OrEmpty(el.text) \o IterChildren(el.children)
IterChildren(children) ==
  IF children = <<>> THEN <<>>
  ELSE IterText(Head(children)) \o OrEmpty(Head(children).tail) \o IterChildren(Tail(children))
NodeText(n) == IF IsStrNode(n) THEN n.str ELSE IterText(n)
RECURSIVE AllText(_)
AllText(ns) == IF ns = <<>> THEN <<>> ELSE NodeText(Head(ns)) \o AllText(Tail(ns))

IsHi(n) == ~IsStrNode(n) /\ n.tag = S_hi
IsWrapperElement(n) == ~IsStrNode(n) /\ n.tag # S_hi
WrapperElements(ns) == SelectSeq(ns, IsWrapperElement)
HasTag(el, tags) == \E j \in 1..Len(tags) : tags[j] = el.tag
\* a placeName that holds field children instead of its witness
IsNestedPlace(n) ==
  /\ IsWrapperElement(n)
  /\ n.tag = S_placeName
  /\ \E j \in 1..Len(n.children) : HasTag(n.children[j], nested_attrs)
\* the part of an element that renders the witness: of a choice the
\* alternative that is not the literal attribute value
WitnessPart(n) ==
  IF IsStrNode(n) THEN n.str
  ELSE IF n.tag = S_choice
       THEN IF n.children[1].tag = S_orig THEN IterText(n.children[2]) ELSE IterText(n.children[1])
       ELSE IterText(n)
RECURSIVE WitnessText(_)
WitnessText(ns) == IF ns = <<>> THEN <<>> ELSE WitnessPart(Head(ns)) \o WitnessText(Tail(ns))

Built == pc \in {"loop", "done"}
Emitting == pc = "loop" /\ idx <= Len(wrappers) /\ nodes' # nodes
LastNode(ns) == ns[Len(ns)]

(***************************************************************************)
(* C1 as stated: the text of all leaves of the result, in order, is the    *)
(* text of the line.                                                       *)
(***************************************************************************)
C1_RoundTripAllLeaves == pc = "done" => AllText(nodes) = text

(***************************************************************************)
(* C1 amended: concatenating in order the plain strings, the labeled runs  *)
(* and the witness content of every wrapper element (of a two-alternative  *)
(* container only the witness alternative, not the literal attribute       *)
(* value) gives exactly the text consumed so far, text[0:cursor], and the  *)
(* whole text on return, whenever no place element with field children     *)
(* was emitted.                                                            *)
(***************************************************************************)
C1_RoundTripWitness ==
  Built /\ (\A j \in 1..Len(nodes) : ~IsNestedPlace(nodes[j]))
    => WitnessText(nodes) = (IF pc = "done" THEN text ELSE Slice(text, 0, cursor))
\* a styled gap followed by a two-alternative container
C1_Witness ==
  /\ pc = "done"
  /\ \E j \in 1..Len(nodes) : IsHi(nodes[j])
  /\ \E j \in 1..Len(nodes) : ~IsStrNode(nodes[j]) /\ nodes[j].tag = S_choice
  /\ Len(text) = MaxLen


(***************************************************************************)
(* C2 as stated: no input makes the conversion raise.                      *)
(***************************************************************************)
C2_NeverFails == pc # "error"

(***************************************************************************)
(* C3: the wrappers are processed in (offset ascending, end descending)    *)
(* order; a wrapper whose offset is below the end of the most recently     *)
(* emitted wrapper (0 before the first) leaves no element, every other     *)
(* wrapper is emitted.  The wrapper elements of the result are therefore   *)
(* exactly the elements of the first-claimed wrappers, in order; for the   *)
(* ops A{offset:0,length:5} and B{offset:2,length:3} that is one element,  *)
(* A's, over text[0:5].                                                    *)
(***************************************************************************)
RECURSIVE FirstClaimed(_, _)
FirstClaimed(ws, lastEnd) ==
  IF ws = <<>> THEN <<>>
  ELSE IF OffsetOf(Head(ws)) < lastEnd THEN FirstClaimed(Tail(ws), lastEnd)
  ELSE <<Head(ws)>> \o FirstClaimed(Tail(ws), EndOf(Head(ws)))
ElementOf(w) ==
  BuildElement(w, Slice(text, OffsetOf(w), EndOf(w)),
               SelectStyles(style_ops, OffsetOf(w), EndOf(w)), OffsetOf(w))
OverlapExample == Join(<<" ">>, <<OverlapA, OverlapB>>)
C3_FirstClaimedWins ==
  Built =>
    LET kept == FirstClaimed(SubSeq(wrappers, 1, idx - 1), 0)
        els == WrapperElements(nodes)
    IN  /\ \A j, k \in 1..Len(wrappers) : j < k => ~KeyLess(wrappers[k], wrappers[j])
        /\ Len(els) = Len(kept)
        /\ \A k \in 1..Len(kept) : els[k] = ElementOf(kept[k])
        /\ (pc = "done" /\ custom_str = OverlapExample
              => Len(els) = 1 /\ els[1].tag = S_num /\ IterText(els[1]) = Slice(text, 0, 5))
C3_Witness ==
  /\ pc = "done"
  /\ custom_str = OverlapExample
  /\ Len(text) = MaxLen
  /\ Len(wrappers) = 2
  /\ Len(WrapperElements(nodes)) = 1


(***************************************************************************)
(* C4: styled segmentation emits one labeled run per labeled segment,      *)
(* holding exactly the text of that segment, and never a labeled run       *)
(* inside a labeled run.  Checked on the tail of the line, the stretch     *)
(* the styles of an unwrapped line fall in, and for flatness on every      *)
(* element of the result.  Bold over [0,3) and italic over [0,3) of a      *)
(* three-character line give exactly one run, labeled bold italic.         *)
(***************************************************************************)
RECURSIVE HiFlat(_)
HiFlat(n) ==
  IF IsStrNode(n) THEN TRUE
  ELSE /\ (n.tag = S_hi => n.children = <<>>)
       /\ \A j \in 1..Len(n.children) : HiFlat(n.children[j])
StyleUnionExample == Join(<<" ">>, <<BoldOp, ItalicOp>>)
S_boldItalic == <<"b","o","l","d"," ","i","t","a","l","i","c">>
TailStepOK ==
  LET tail == Slice(text, cursor, Len(text))
      sel == SelectStyles(style_ops, cursor, Len(text))
      segs == slice_text_nodes(tail, StyleRanges(sel))
      labelled == SelectSeq(segs, LAMBDA g : g.labels # {})
      new == SubSeq(nodes', Len(nodes) + 1, Len(nodes'))
      runs == SelectSeq(new, IsHi)
  IN  /\ Len(runs) = Len(labelled)
      /\ \A k \in 1..Len(runs) :
           /\ runs[k].text = Slice(tail, labelled[k].s, labelled[k].e)
           /\ runs[k].children = <<>>
      /\ AllText(new) = tail
      /\ \A j \in 1..Len(nodes') : HiFlat(nodes'[j])
      /\ (custom_str = StyleUnionExample /\ Len(text) = 3
            => nodes' = <<[SetAttr(Element(S_hi), S_rend, S_boldItalic) EXCEPT !.text = text]>>)
C4_OneRunPerSegment == [][pc = "loop" /\ pc' = "done" => TailStepOK]_vars
C4_Witness ==
  /\ pc = "done"
  /\ custom_str = StyleUnionExample
  /\ Len(text) = 3
  /\ Len(nodes) = 1
  /\ IsHi(nodes[1])

(***************************************************************************)
(* C5: the element of an emitted regularised wrapper has as first          *)
(* alternative the literal original attribute, unstyled and empty if       *)
(* absent, and as second alternative the styled witness; for abbrev and    *)
(* sic the first alternative is the styled witness and the second the      *)
(* literal expansion or correction, empty if absent.                       *)
(***************************************************************************)
Literal(el, tag, value) ==
  el.tag = tag /\ el.text = value /\ el.children = <<>>
StyledWitness(el, tag, w) ==
  /\ el.tag = tag
  /\ IterText(el) = Slice(text, OffsetOf(w), EndOf(w))
  /\ el = build_styled_nodes(Element(tag), Slice(text, OffsetOf(w), EndOf(w)),
             AdjStyles(Slice(text, OffsetOf(w), EndOf(w)),
                       SelectStyles(style_ops, OffsetOf(w), EndOf(w)), OffsetOf(w)))
AttrOr(w, key) == IF Has(w, key) THEN Get(w, key).s ELSE <<>>
ChoiceStepOK ==
  LET w == wrappers[idx]
      el == LastNode(nodes')
  IN  /\ el.tag = S_choice
      /\ Len(el.children) = 2
      /\ KindOf(w) = S_regularised =>
           /\ Literal(el.children[1], S_orig, AttrOr(w, S_original))
           /\ StyledWitness(el.children[2], S_reg, w)
      /\ KindOf(w) = S_abbrev =>
           /\ StyledWitness(el.children[1], S_abbr, w)
           /\ Literal(el.children[2], S_expan, AttrOr(w, S_expansion))
      /\ KindOf(w) = S_sic =>
           /\ StyledWitness(el.children[1], S_sic, w)
           /\ Literal(el.children[2], S_corr, AttrOr(w, S_correction))
C5_RegularisedAsymmetry ==
  [][Emitting /\ KindOf(wrappers[idx]) \in ChoiceKinds => ChoiceStepOK]_vars
\* a regularised element with a run in its second alternative, next to an
\* abbrev element
C5_Witness ==
  /\ pc = "done"
  /\ \E j \in 1..Len(nodes) :
       /\ IsWrapperElement(nodes[j])
       /\ nodes[j].tag = S_choice
       /\ nodes[j].children[1].tag = S_orig
       /\ nodes[j].children[1].text = <<"z">>
       /\ \E k \in 1..Len(nodes[j].children[2].children) : IsHi(nodes[j].children[2].children[k])


(***************************************************************************)
(* C6: every match of the op pattern yields a span; its offset and its     *)
(* length are each the integer its body gives for that key, and 0 when     *)
(* the key is missing or its value is no integer, independently of the     *)
(* other.  The custom string num{offset:x;length:3;} parses to one span    *)
(* with offset 0, length 3 and end 3.                                      *)
(***************************************************************************)
Parsed == pc # "parse"
JustParsed == pc = "build"
BodyOfMatch(m) == ParseBody(FindParts(m.g2, 1), <<>>)
BodyOf(j) == BodyOfMatch(FindOps(custom_str, 1)[j])
NumberIn(kv, key) ==
  IF Has(kv, key) /\ IntOk(Get(kv, key).s) THEN IntValue(Get(kv, key).s) ELSE 0
C6_MalformedNumberIsZero ==
  JustParsed =>
    LET ms == FindOps(custom_str, 1)
    IN  /\ Len(ops) = Len(ms)
        /\ \A j \in 1..Len(ops) :
             LET kv == BodyOfMatch(ms[j])
             IN  /\ Get(ops[j], S_offset) = IntV(NumberIn(kv, S_offset))
                 /\ Get(ops[j], S_length) = IntV(NumberIn(kv, S_length))
        /\ custom_str = MalformedNum =>
             /\ Len(ops) = 1
             /\ Get(ops[1], S_offset) = IntV(0)
             /\ Get(ops[1], S_length) = IntV(3)
             /\ Get(ops[1], S_end) = IntV(3)
C6_Witness ==
  /\ JustParsed
  /\ custom_str = MalformedNum
  /\ Len(ops) = 1
  /\ Get(BodyOf(1), S_offset) = StrV(<<"x">>)

(***************************************************************************)
(* C7 as stated: the element of an emitted wrapper of an unknown kind is   *)
(* the generic element, tagged with the kind, that carries every key of    *)
(* the op's body other than offset and length as a prefixed attribute      *)
(* with the value the body gives it, and holds the witness.                *)
(***************************************************************************)
FallbackStepOK ==
  LET w == wrappers[idx]
      el == LastNode(nodes')
  IN  \A j \in 1..Len(ops) :
        ops[j] = w =>
          /\ el.tag = S_seg
          /\ Has(el.attrib, S_type)
          /\ Get(el.attrib, S_type) = KindOf(w)
          /\ \A k \in 1..Len(BodyOf(j)) :
               BodyOf(j)[k][1] \notin {S_offset, S_length} =>
                 /\ Has(el.attrib, S_data \o BodyOf(j)[k][1])
                 /\ Get(el.attrib, S_data \o BodyOf(j)[k][1]) = BodyOf(j)[k][2].s
          /\ IterText(el) = Slice(text, OffsetOf(w), EndOf(w))
C7_FallbackKeepsEveryAttribute ==
  [][Emitting /\ KindOf(wrappers[idx]) \notin known_kinds => FallbackStepOK]_vars

(***************************************************************************)
(* C8: the empty custom string parses to no span, and a line without       *)
(* spans is returned as one plain string equal to its text, or as no node  *)
(* when the text is empty.                                                 *)
(***************************************************************************)
C8_EmptyInput ==
  /\ Parsed /\ custom_str = <<>> => ops = <<>>
  /\ pc = "done" /\ ops = <<>> =>
       nodes = (IF text = <<>> THEN <<>> ELSE <<StrNode(text)>>)
C8_Witness ==
  /\ pc = "done"
  /\ custom_str = <<>>
  /\ ops = <<>>
  /\ Len(text) = MaxLen
  /\ Len(nodes) = 1

(***************************************************************************)
(* C9: the node list never holds an empty plain string, nor two plain      *)
(* strings in a row.                                                       *)
(***************************************************************************)
C9_NormalizedNodes ==
  /\ \A j \in 1..Len(nodes) : IsStrNode(nodes[j]) => nodes[j].str # <<>>
  /\ \A j \in 1..(Len(nodes) - 1) : ~(IsStrNode(nodes[j]) /\ IsStrNode(nodes[j + 1]))
\* a gap of plain text, a run and plain text again, then a wrapper element
C9_Witness ==
  /\ pc = "done"
  /\ Len(nodes) >= 4
  /\ IsStrNode(nodes[1])
  /\ IsHi(nodes[2])
  /\ IsStrNode(nodes[3])
  /\ IsWrapperElement(nodes[4])

(***************************************************************************)
(* C10 as stated: every span parse returns has end = offset + length.      *)
(***************************************************************************)
C10_EndIsOffsetPlusLength ==
  Parsed =>
    \A j \in 1..Len(ops) :
      Get(ops[j], S_end) = IntV(OffsetOf(ops[j]) + LengthOf(ops[j]))


(***************************************************************************)
(* C11 as stated: every span parse returns has offset >= 0 and             *)
(* length >= 0.                                                            *)
(***************************************************************************)
C11_NonNegativeOffsetAndLength ==
  Parsed => \A j \in 1..Len(ops) : OffsetOf(ops[j]) >= 0 /\ LengthOf(ops[j]) >= 0

(***************************************************************************)
(* Reading the labels of the result: the label set every character of a    *)
(* stretch of output carries.  A rend value is split at its spaces.        *)
(***************************************************************************)
RECURSIVE SplitWords(_, _)
SplitWords(s, word) ==
  IF s = <<>> THEN (IF word = <<>> THEN <<>> ELSE <<word>>)
  ELSE IF Head(s) = " "
       THEN (IF word = <<>> THEN <<>> ELSE <<word>>) \o SplitWords(Tail(s), <<>>)
       ELSE SplitWords(Tail(s), Append(word, Head(s)))
RendWords(el) == IF Has(el.attrib, S_rend) THEN SplitWords(Get(el.attrib, S_rend), <<>>) ELSE <<>>
SetOf(seq) == {seq[j] : j \in 1..Len(seq)}
Plain(s) == [j \in 1..Len(s) |-> {}]
Labeled(s, labels) == [j \in 1..Len(s) |-> labels]
\* one label set per character of the content of an element
RECURSIVE ChildLabels(_)
ChildLabels(children) ==
  IF children = <<>> THEN <<>>
  ELSE LET ch == Head(children)
       IN  (IF ch.tag = S_hi THEN Labeled(IterText(ch), SetOf(RendWords(ch)))
            ELSE Plain(IterText(ch)))
             \o Plain(OrEmpty(ch.tail)) \o ChildLabels(Tail(children))
ContentLabels(el) == Plain(OrEmpty(el.text)) \o ChildLabels(el.children)
\* one label set per character of a list of plain strings and runs
RECURSIVE NodeLabels(_)
NodeLabels(ns) ==
  IF ns = <<>> THEN <<>>
  ELSE (IF IsStrNode(Head(ns)) THEN Plain(Head(ns).str)
        ELSE IF IsHi(Head(ns)) THEN Labeled(IterText(Head(ns)), SetOf(RendWords(Head(ns))))
        ELSE Plain(IterText(Head(ns))))
         \o NodeLabels(Tail(ns))
\* the labels the styles of a selection give the character at line index p
LabelsDue(styles, p) ==
  UNION {SetOf(RendOf(styles[j])) :
           j \in {k \in 1..Len(styles) : OffsetOf(styles[k]) <= p /\ p < EndOf(styles[k])}}
NewNodes == SubSeq(nodes', Len(nodes) + 1, Len(nodes'))

(***************************************************************************)
(* C13 as stated: the styles contained in a pre-gap [cursor, w.offset) or  *)
(* in the trailing range [cursor, len(text)) label exactly their own       *)
(* characters: the character of the gap at line index p carries the        *)
(* labels of the selected styles with offset <= p < end, and no other,     *)
(* also when cursor > 0.                                                   *)
(***************************************************************************)
GapLabelsOK(gapNodes, lo, hi) ==
  LET gap == Slice(text, lo, hi)
      sel == SelectStyles(style_ops, lo, hi)
      got == NodeLabels(gapNodes)
  IN  /\ Len(got) = Len(gap)
      /\ \A k \in 1..Len(gap) : got[k] = LabelsDue(sel, lo + k - 1)
C13_GapStylesOnOwnCharacters ==
  [][/\ (Emitting => GapLabelsOK(SubSeq(NewNodes, 1, Len(NewNodes) - 1),
                                 cursor, OffsetOf(wrappers[idx])))
     /\ (pc = "loop" /\ pc' = "done" => GapLabelsOK(NewNodes, cursor, Len(text)))]_vars


(***************************************************************************)
(* C14 as stated: for every emitted wrapper w with w.end <= len(text) the  *)
(* styles with w.offset <= s.offset and s.end <= w.end reach the handler   *)
(* with offset and end reduced by w.offset, and the characters of the      *)
(* wrapper's content carrying their labels are exactly                     *)
(* witness[s.offset - w.offset : s.end - w.offset]; the span records are   *)
(* left as they were.                                                      *)
(***************************************************************************)
\* the element that holds the witness content of a wrapper element
WitnessHolder(el) ==
  IF el.tag = S_choice
  THEN IF el.children[1].tag = S_orig THEN el.children[2] ELSE el.children[1]
  ELSE el
RebasedStepOK ==
  LET w == wrappers[idx]
      start == OffsetOf(w)
      witness == Slice(text, start, EndOf(w))
      sel == SelectStyles(style_ops, start, EndOf(w))
      adj == AdjStyles(witness, sel, start)
      got == ContentLabels(WitnessHolder(LastNode(nodes')))
  IN  /\ Len(adj) = Len(sel)
      /\ \A j \in 1..Len(sel) :
           /\ OffsetOf(adj[j]) = OffsetOf(sel[j]) - start
           /\ EndOf(adj[j]) = EndOf(sel[j]) - start
           /\ RendOf(adj[j]) = RendOf(sel[j])
      /\ Len(got) = Len(witness)
      /\ \A k \in 1..Len(witness) : got[k] = LabelsDue(sel, start + k - 1)
      /\ style_ops' = style_ops /\ ops' = ops /\ wrappers' = wrappers
\* some style with a true label lies inside the range of the wrapper at idx
LabeledInside ==
  \E j \in 1..Len(style_ops) :
    /\ RendOf(style_ops[j]) # <<>>
    /\ OffsetOf(wrappers[idx]) <= OffsetOf(style_ops[j])
    /\ EndOf(style_ops[j]) <= EndOf(wrappers[idx])
C14_RebasedInsideEveryWrapper ==
  [][Emitting /\ EndOf(wrappers[idx]) <= Len(text) /\ LabeledInside => RebasedStepOK]_vars

(***************************************************************************)
(* C14 amended: the same, for every emitted wrapper other than a place     *)
(* wrapper carrying country, region, settlement or district, whose element *)
(* holds the field values and no witness content.                          *)
(***************************************************************************)
C14_RebasedInsideStyledWrapper ==
  [][(Emitting /\ EndOf(wrappers[idx]) <= Len(text) /\ LabeledInside
       /\ ~IsNestedPlace(LastNode(nodes')))
     => RebasedStepOK]_vars
\* a wrapper that starts after the line start was emitted around a labeled run
C14_Witness ==
  /\ pc = "done"
  /\ \E j \in 1..Len(nodes) :
       /\ IsWrapperElement(nodes[j]) /\ ~IsNestedPlace(nodes[j])
       /\ j > 1
       /\ \E k \in 1..Len(ContentLabels(WitnessHolder(nodes[j]))) :
            ContentLabels(WitnessHolder(nodes[j]))[k] # {}


(***************************************************************************)
(* C15 as stated: the label string of a labeled run lists each of the      *)
(* five labels at most once, and lists a label exactly when some style     *)
(* span that fully covers the segment of the run has that label true.      *)
(* Checked on the runs of the tail of the line.                            *)
(***************************************************************************)
RunLabelsOK ==
  LET tail == Slice(text, cursor, Len(text))
      sel == SelectStyles(style_ops, cursor, Len(text))
      segs == slice_text_nodes(tail, StyleRanges(sel))
      labelled == SelectSeq(segs, LAMBDA g : g.labels # {})
      runs == SelectSeq(NewNodes, IsHi)
      Covering(g) == {j \in 1..Len(sel) : OffsetOf(sel[j]) <= g.s /\ g.e <= EndOf(sel[j])}
  IN  /\ Len(runs) = Len(labelled)
      /\ \A k \in 1..Len(runs) :
           LET words == RendWords(runs[k])
           IN  /\ \A a, b \in 1..Len(words) : a # b => words[a] # words[b]
               /\ SetOf(words) \subseteq SetOf(StyleKeys)
               /\ SetOf(words) = UNION {SetOf(RendOf(sel[j])) : j \in Covering(labelled[k])}
C15_RunLabelsAreSetUnion == [][pc = "loop" /\ pc' = "done" => RunLabelsOK]_vars


(***************************************************************************)
(* C16: the element of an emitted place wrapper carrying any of country,   *)
(* region, settlement, district has exactly one unstyled child per         *)
(* present attribute, in that fixed order, holding the attribute value,    *)
(* and neither witness text nor a labeled run; the element of a place      *)
(* wrapper carrying none of them holds the styled witness and no such      *)
(* child.                                                                  *)
(***************************************************************************)
PlaceStepOK ==
  LET w == wrappers[idx]
      el == LastNode(nodes')
      witness == Slice(text, OffsetOf(w), EndOf(w))
      sel == SelectStyles(style_ops, OffsetOf(w), EndOf(w))
      fields == SelectSeq(<<S_country, S_region, S_settlement, S_district>>,
                          LAMBDA attr : Has(w, attr))
      got == ContentLabels(el)
  IN  /\ el.tag = S_placeName
      /\ IF fields # <<>>
         THEN /\ el.text = None
              /\ Len(el.children) = Len(fields)
              /\ \A j \in 1..Len(fields) :
                   /\ Literal(el.children[j], fields[j], Get(w, fields[j]).s)
                   /\ el.children[j].tail = None
         ELSE /\ \A j \in 1..Len(el.children) : el.children[j].tag = S_hi
              /\ IterText(el) = witness
              /\ Len(got) = Len(witness)
              /\ \A k \in 1..Len(witness) : got[k] = LabelsDue(sel, OffsetOf(w) + k - 1)
C16_PlaceFieldsOrWitness ==
  [][Emitting /\ KindOf(wrappers[idx]) = S_place => PlaceStepOK]_vars
\* a place element with two field children was emitted over a bold range
C16_Witness ==
  /\ pc = "done"
  /\ \E j \in 1..Len(nodes) : IsNestedPlace(nodes[j]) /\ Len(nodes[j].children) = 2
  /\ \E j \in 1..Len(style_ops) :
       /\ RendOf(style_ops[j]) # <<>>
       /\ OffsetOf(style_ops[j]) = 0 /\ EndOf(style_ops[j]) = 3


(***************************************************************************)
(* C17 as stated: on a line without wrappers, a style span with a true     *)
(* label, 0 <= offset < len(text) and end > len(text) is clamped, not      *)
(* discarded: every character of text[offset:len(text)] carries its        *)
(* labels, and text[0:offset] stays plain when it is the only style.       *)
(***************************************************************************)
C17_OverlongStyleIsClamped ==
  pc = "done" /\ wrappers = <<>>
    => \A j \in 1..Len(style_ops) :
         LET st == style_ops[j]
             got == NodeLabels(nodes)
         IN  RendOf(st) # <<>> /\ 0 <= OffsetOf(st) /\ OffsetOf(st) < Len(text)
               /\ EndOf(st) > Len(text)
             => /\ Len(got) = Len(text)
                /\ \A p \in OffsetOf(st)..(Len(text) - 1) : SetOf(RendOf(st)) \subseteq got[p + 1]
                /\ Len(style_ops) = 1 => \A p \in 0..(OffsetOf(st) - 1) : got[p + 1] = {}


(***************************************************************************)
(* C18 as stated: parse returns one span per match, in match order; the    *)
(* kind of a span is the name token before its braces, and the span holds  *)
(* every body key other than offset and length with the value of the last  *)
(* occurrence of that key (for a textStyle span the five style keys hold   *)
(* that value coerced to true or false), the kind being left as it is.     *)
(***************************************************************************)
LastValue(parts, key) ==
  LET at == {k \in 1..Len(parts) : parts[k].g1 = key}
      last == CHOOSE k \in at : \A k2 \in at : k2 <= k
  IN  Strip(parts[last].g2)
Coerced(name, key, value) ==
  IF name = S_textStyle /\ key \in SetOf(StyleKeys)
  THEN (IF parse_bool(value) THEN S_true ELSE S_false)
  ELSE value
C18_AttributeMapping ==
  JustParsed =>
    LET ms == FindOps(custom_str, 1)
    IN  /\ Len(ops) = Len(ms)
        /\ \A j \in 1..Len(ops) :
             LET parts == FindParts(ms[j].g2, 1)
             IN  /\ Get(ops[j], S_kind) = StrV(ms[j].g1)
                 /\ \A k \in 1..Len(parts) :
                      parts[k].g1 \notin {S_offset, S_length} =>
                        /\ Has(ops[j], parts[k].g1)
                        /\ Get(ops[j], parts[k].g1)
                             = StrV(Coerced(ms[j].g1, parts[k].g1, LastValue(parts, parts[k].g1)))


(***************************************************************************)
(* C19: in the wrapper loop the cursor never decreases; a wrapper is       *)
(* emitted only at an offset >= the cursor, which is the end of the        *)
(* previously emitted wrapper (0 before the first), and moves the cursor   *)
(* to its own end, beyond its offset.  The emitted wrappers, one output    *)
(* element each, therefore have strictly increasing offsets and pairwise   *)
(* disjoint ranges, and the pre-gap [cursor, offset) lies between the      *)
(* previous range and the new one.                                         *)
(***************************************************************************)
CursorStepOK ==
  LET w == wrappers[idx]
      kept == FirstClaimed(SubSeq(wrappers, 1, idx - 1), 0)
  IN  /\ cursor = (IF kept = <<>> THEN 0 ELSE EndOf(kept[Len(kept)]))
      /\ Len(WrapperElements(nodes)) = Len(kept)
      /\ Len(WrapperElements(nodes')) = Len(kept) + 1
      /\ cursor <= OffsetOf(w)
      /\ OffsetOf(w) < EndOf(w)
      /\ cursor' = EndOf(w)
      /\ \A k \in 1..Len(kept) :
           /\ OffsetOf(kept[k]) < EndOf(kept[k])
           /\ EndOf(kept[k]) <= OffsetOf(w)
           /\ OffsetOf(kept[k]) < OffsetOf(w)
           /\ k > 1 => EndOf(kept[k - 1]) <= OffsetOf(kept[k])
C19_CursorAndOrdering ==
  [][/\ cursor <= cursor'
     /\ (Emitting => CursorStepOK)
     /\ (pc = "loop" /\ nodes' = nodes => cursor' = cursor)]_vars
\* two wrappers were emitted, the second one after a gap
C19_Witness ==
  /\ pc = "done"
  /\ Len(wrappers) = 2
  /\ Len(WrapperElements(nodes)) = 2
  /\ EndOf(wrappers[1]) < OffsetOf(wrappers[2])
  /\ cursor = EndOf(wrappers[2])


(***************************************************************************)
(* C20: a textStyle span that is fully contained neither in one gap (a     *)
(* pre-gap or the trailing range) nor in the range of one emitted wrapper  *)
(* contributes no label: the node list build returns is the one it returns *)
(* for the same line and the spans without that span.                      *)
(***************************************************************************)
Within(st, lo, hi) == IsInt(Get(st, S_end)) /\ lo <= OffsetOf(st) /\ EndOf(st) <= hi
\* the ranges of the emitted wrappers, the gaps before them and the trailing range
Ranges(kept, lineLen) ==
  {<<OffsetOf(kept[k]), EndOf(kept[k])>> : k \in 1..Len(kept)}
    \cup {<<(IF k = 1 THEN 0 ELSE EndOf(kept[k - 1])), OffsetOf(kept[k])>> : k \in 1..Len(kept)}
    \cup {<<(IF kept = <<>> THEN 0 ELSE EndOf(kept[Len(kept)])), lineLen>>}
Straddles(st) ==
  \A r \in Ranges(FirstClaimed(wrappers, 0), Len(text)) : ~Within(st, r[1], r[2])
Without(seq, j) == SubSeq(seq, 1, j - 1) \o SubSeq(seq, j + 1, Len(seq))
C20_StraddlingStyleIsInert ==
  pc = "done" =>
    /\ build_inline_nodes_for_line(text, ops) = Returned(nodes)
    /\ \A j \in 1..Len(ops) :
         KindOf(ops[j]) = S_textStyle /\ Straddles(ops[j])
           => build_inline_nodes_for_line(text, Without(ops, j)) = Returned(nodes)
\* a labeled style that begins before an emitted wrapper and ends inside or after it
C20_Witness ==
  /\ pc = "done"
  /\ Len(WrapperElements(nodes)) = 1
  /\ \E j \in 1..Len(style_ops) :
       /\ RendOf(style_ops[j]) # <<>>
       /\ Straddles(style_ops[j])
       /\ OffsetOf(style_ops[j]) < OffsetOf(wrappers[1])
       /\ OffsetOf(wrappers[1]) < EndOf(style_ops[j])
       /\ OffsetOf(style_ops[j]) < Len(text)

====
